---- MODULE Spec2Model ----
(***************************************************************************)
(* A model of notTheLogger (src/src/index.ts): the Logger class with its   *)
(* console, JSON-file and text-file sinks, the process-wide registry       *)
(* `instances` with getLogger / removeLogger, and the file operations the  *)
(* test suite performs on the log files.                                   *)
(*                                                                         *)
(* All of the code is synchronous and runs on Node's single thread, so     *)
(* every call runs to completion: one action per call.                     *)
(***************************************************************************)
EXTENDS Naturals, Sequences, FiniteSets, TLC

VARIABLES
  instances,   \* own properties of the registry object: key -> Logger reference
  loggers,     \* the heap of constructed Logger objects, indexed by reference
  dirExists,   \* whether the logs directory exists
  files,       \* the files of the logs directory: path -> content (a token sequence)
  console,     \* what console.log has emitted, in order
  call,        \* the call that was made last
  ret,         \* what that call returned, or the error it raised
  lastGot,     \* per pair: the value getLogger last returned since removeLogger of that pair
  lastGotKey,  \* per pair: the same, forgotten by removeLogger of any pair with the same key
  jsonHist,    \* per service: the log calls of json Loggers since its JSON file was last absent
  nLogs        \* number of log calls made so far

vars == <<instances, loggers, dirExists, files, console, call, ret,
          lastGot, lastGotKey, jsonHist, nLogs>>

---------------------------------------------------------------------------
(* Bounds of the model. *)

\* Logger objects constructed in one run.
MaxLoggers == 2

\* Log calls in one run of Spec, of SpecJson and of SpecFormat.
MaxLogs == 1

MaxJsonLogs == 3

MaxFormatLogs == 2

\* Log calls in one run of SpecFaults and of SpecLife.
MaxFaultLogs == 2

MaxLifeLogs == 2

---------------------------------------------------------------------------
(* Types of index.ts. *)

LogLevel == {"debug", "info", "warn", "error", "fatal"}

LogMode == {"console", "json", "txt"}

\* The mode arrays a caller passes; only membership (includes) is ever read.
Modes == SUBSET LogMode

\* (service, module) pairs callers use.  ("ab","c") and ("a","bc") concatenate
\* to the same key, ("ab","c") and ("ab","bc") share a service, and
\* ("to","String") concatenates to the name of an inherited Object property.
Pairs == {<<"ab", "c">>, <<"a", "bc">>, <<"ab", "bc">>, <<"to", "String">>}

\* The services a Logger is ever constructed for.
Services == {"ab", "a"}

\* Clock readings.
Clock == {0, 1}

\* Property names every object literal inherits from Object.prototype.
ObjectPrototype == {"constructor", "toString", "__proto__"}

\* Call-site strings getCaller can return ('' when the stack has no such line).
Callers == {"", "at run (app.ts:3:3)"}

\* Message arguments: a string, or an object given as its list of properties.
StrArg(s) == [type |-> "string", s |-> s, props |-> <<>>]

ObjArg(props) == [type |-> "object", s |-> "", props |-> props]

BoolProp(k, b) == [k |-> k, t |-> "boolean", v |-> b]

StrProp(k, s) == [k |-> k, t |-> "string", v |-> s]

ArgLists ==
  { <<StrArg("X")>>,
    <<ObjArg(<<StrProp("foo", "bar")>>)>>,
    <<StrArg("First"), ObjArg(<<BoolProp("second", "true")>>), StrArg("Third")>> }

---------------------------------------------------------------------------
(* Values a call can return. *)

Undefined == [kind |-> "undefined", ref |-> 0, name |-> ""]

LoggerRef(r) == [kind |-> "logger", ref |-> r, name |-> ""]

\* A value inherited from Object.prototype (a function or the prototype itself).
Builtin(n) == [kind |-> "builtin", ref |-> 0, name |-> n]

Thrown(n) == [kind |-> "error", ref |-> 0, name |-> n]

\* A registry whose membership test never finds an entry.
Truthy_Never(v) == FALSE

Truthy(v) == v.kind \in {"logger", "builtin"}

NoCall == [op |-> "none", service |-> "", moduleName |-> "", mode |-> {},
           ref |-> 0, level |-> "", args |-> <<>>, caller |-> "", ts |-> 0,
           path |-> "", fault |-> "none"]

---------------------------------------------------------------------------
(* Formatting: the pure parts of writeLog. *)

\* level.toUpperCase()
ToUpperCase(level) ==
  CASE level = "debug" -> "DEBUG"
    [] level = "info"  -> "INFO"
    [] level = "warn"  -> "WARN"
    [] level = "error" -> "ERROR"
    [] level = "fatal" -> "FATAL"

\* The colour escape of each level.
colorMap(level) ==
  CASE level = "debug" -> "\\x1b[32m"
    [] level = "info"  -> "\\x1b[34m"
    [] level = "warn"  -> "\\x1b[33m"
    [] level = "error" -> "\\x1b[31m"
    [] level = "fatal" -> "\\x1b[35m"

Digit(n) == <<"0", "1", "2", "3", "4", "5", "6", "7", "8", "9">>[n + 1]

\* new Date().toISOString() for a clock reading of ts milliseconds.
ToISOString(ts) == "1970-01-01T00:00:00.00" \o Digit(ts) \o "Z"

\* The compact JSON text of one property value.
StringifyValue(p) == IF p.t = "string" THEN "\"" \o p.v \o "\"" ELSE p.v

\* Array.prototype.join
RECURSIVE Join(_, _)
Join(strs, sep) ==
  IF Len(strs) = 0 THEN ""
  ELSE IF Len(strs) = 1 THEN strs[1]
  ELSE strs[1] \o sep \o Join(Tail(strs), sep)

\* JSON.stringify(msg) of an object argument: compact, no spaces.
JSONStringifyCompact(props) ==
  "{" \o Join([i \in 1..Len(props) |->
                 "\"" \o props[i].k \o "\":" \o StringifyValue(props[i])], ",")
      \o "}"

\* A flattening that leaves objects to their default string conversion.
FinalMessage_NoStringify(rawMessages) ==
  Join([i \in 1..Len(rawMessages) |->
          IF rawMessages[i].type = "object" THEN "[object Object]"
          ELSE rawMessages[i].s], ", ")

\* rawMessages.map(msg => typeof msg === 'object' ? JSON.stringify(msg) : msg).join(', ')
FinalMessage(rawMessages) ==
  Join([i \in 1..Len(rawMessages) |->
          IF rawMessages[i].type = "object"
          THEN JSONStringifyCompact(rawMessages[i].props)
          ELSE rawMessages[i].s], ", ")

\* The LogEntry writeLog builds.
Entry(lg, caller, level, finalMessage, ts) ==
  [timestamp |-> ToISOString(ts), service |-> lg.service, module |-> lg.moduleName,
   caller |-> caller, level |-> level, message |-> finalMessage]

\* The two arguments of console.log.
ConsoleLine(level, entry) ==
  [tag |-> colorMap(level) \o "[" \o ToUpperCase(level) \o "]" \o "\\x1b[0m",
   entry |-> entry]

\* The line appended to the text file.
TextLine(lg, caller, level, finalMessage, entry) ==
  entry.timestamp \o " " \o lg.service \o " " \o lg.moduleName \o " " \o caller
    \o " [" \o ToUpperCase(level) \o "]: " \o finalMessage \o "\n"

---------------------------------------------------------------------------
(* File contents.  A file is a sequence of tokens: the punctuation and the  *)
(* values of JSON text, or a run of plain text.                            *)

NoEntry == [timestamp |-> "", service |-> "", module |-> "", caller |-> "",
            level |-> "", message |-> ""]

Tok(t, s, e) == [t |-> t, s |-> s, e |-> e]

LBracket == Tok("[", "", NoEntry)

RBracket == Tok("]", "", NoEntry)

Comma == Tok(",", "", NoEntry)

ObjectTok(e) == Tok("object", "", e)

NullTok == Tok("null", "", NoEntry)

NumberTok(s) == Tok("number", s, NoEntry)

TextTok(s) == Tok("text", s, NoEntry)

IsValueTok(tok) == tok.t \in {"object", "null", "number", "string"}

\* JSON.parse: [ok |-> FALSE] stands for a SyntaxError.
JSONParse(content) ==
  LET n == Len(content)
      inner == SubSeq(content, 2, n - 1)
      m == n - 2
  IN IF n = 1 /\ IsValueTok(content[1])
     THEN [ok |-> TRUE, k |-> content[1].t, items |-> <<>>]
     ELSE IF /\ n >= 2
             /\ content[1] = LBracket
             /\ content[n] = RBracket
             /\ (m = 0 \/ m % 2 = 1)
             /\ \A i \in 1..m : IF i % 2 = 1 THEN IsValueTok(inner[i])
                                             ELSE inner[i] = Comma
     THEN [ok |-> TRUE, k |-> "array",
           items |-> [i \in 1..((m + 1) \div 2) |-> inner[2 * i - 1]]]
     ELSE [ok |-> FALSE, k |-> "", items |-> <<>>]

RECURSIVE SepBy(_)
SepBy(items) ==
  IF Len(items) <= 1 THEN items
  ELSE <<items[1], Comma>> \o SepBy(Tail(items))

\* JSON.stringify(logs, null, 2) of an array.
JSONStringify(items) == <<LBracket>> \o SepBy(items) \o <<RBracket>>

---------------------------------------------------------------------------
(* Paths. *)

\* path.join(__dirname, 'logs')
logsDir == "logs"

PathJoin(dir, name) == dir \o "/" \o name

JsonPath(service) == PathJoin(logsDir, service \o ".log.json")

TextPath(service) == PathJoin(logsDir, service \o ".log.txt")

Paths == {JsonPath(s) : s \in Services} \cup {TextPath(s) : s \in Services}

Absent == [exists |-> FALSE, content |-> <<>>]

File(content) == [exists |-> TRUE, content |-> content]

---------------------------------------------------------------------------
(* The registry. *)

\* A key that keeps the two names apart.
Key_Separated(service, moduleName) == service \o "/" \o moduleName

\* const id = service + moduleName
Key(service, moduleName) == service \o moduleName

Keys == {Key(p[1], p[2]) : p \in Pairs}

\* instances[id]: an own property (0 stands for none), else what the object
\* inherits from Object.prototype, else undefined.
Lookup(inst, id) ==
  IF inst[id] # 0 THEN LoggerRef(inst[id])
  ELSE IF id \in ObjectPrototype THEN Builtin(id)
  ELSE Undefined

\* A constructor that sets both paths whatever the modes.
NewLogger_PathsAlways(service, moduleName, mode) ==
  [service |-> service, moduleName |-> moduleName, logModes |-> mode,
   logFilePath |-> JsonPath(service), textLogFilePath |-> TextPath(service)]

\* The fields the Logger constructor sets.
NewLogger(service, moduleName, mode) ==
  [service |-> service, moduleName |-> moduleName, logModes |-> mode,
   logFilePath |-> IF "json" \in mode THEN JsonPath(service) ELSE "",
   textLogFilePath |-> IF "txt" \in mode THEN TextPath(service) ELSE ""]

\* A constructor that makes the logs directory whatever the modes.
NeedsDir_Always(mode) == TRUE

\* The constructor's condition for touching the file system.
NeedsDir(mode) == "txt" \in mode \/ "json" \in mode

\* A directory creation without the existsSync test and without recursive.
Mkdir_NoExistsCheck(dir, mkdirOk) ==
  IF dir THEN "EEXIST" ELSE IF mkdirOk THEN "" ELSE "EACCES"

\* A directory creation that swallows the refusal.
Mkdir_Swallow(dir, mkdirOk) == ""

\* if (!fs.existsSync(logsDir)) { fs.mkdirSync(logsDir, { recursive: true }); }
\* The error it raises, "" for none.
Mkdir(dir, mkdirOk) ==
  IF dir THEN "" ELSE IF mkdirOk THEN "" ELSE "EACCES"

---------------------------------------------------------------------------
(* The sinks of writeLog, as functions of the file system before the call. *)

EmptyArray == [ok |-> TRUE, k |-> "array", items |-> <<>>]

\* A read that lets the parse error escape (no try/catch).
ReadLogs_NoCatch(fs, path, fault) ==
  IF fs[path].exists THEN JSONParse(fs[path].content) ELSE EmptyArray

\* A write path that never reads what the file holds.
ReadLogs_Forget(fs, path, fault) == EmptyArray

\* let logs = []; if (existsSync) { try { logs = JSON.parse(readFileSync) } catch { logs = [] } }
ReadLogs(fs, path, fault) ==
  IF fs[path].exists
  THEN IF fault = "read" THEN EmptyArray
       ELSE LET parsed == JSONParse(fs[path].content)
            IN IF parsed.ok THEN parsed ELSE EmptyArray
  ELSE EmptyArray

\* A JSON sink that puts the new entry first (unshift for push).
JsonSink_Unshift(lg, entry, fs, dir, fault) ==
  IF "json" \in lg.logModes /\ lg.logFilePath # ""
  THEN LET logs == ReadLogs(fs, lg.logFilePath, fault)
       IN IF logs.k # "array"
          THEN [err |-> "TypeError", files |-> fs]
          ELSE [err |-> "",
                files |-> [fs EXCEPT ![lg.logFilePath] =
                             File(JSONStringify(<<ObjectTok(entry)>> \o logs.items))]]
  ELSE [err |-> "", files |-> fs]

\* The JSON sink: the error it raises ("" for none) and the files afterwards.
JsonSink(lg, entry, fs, dir, fault) ==
  IF "json" \in lg.logModes /\ lg.logFilePath # ""
  THEN LET logs == ReadLogs(fs, lg.logFilePath, fault)
       IN IF logs.k # "array"
          THEN [err |-> "TypeError", files |-> fs]
          ELSE IF ~dir THEN [err |-> "ENOENT", files |-> fs]
          ELSE IF fault = "json" THEN [err |-> "EACCES", files |-> fs]
          ELSE [err |-> "",
                files |-> [fs EXCEPT ![lg.logFilePath] =
                             File(JSONStringify(Append(logs.items, ObjectTok(entry))))]]
  ELSE [err |-> "", files |-> fs]

\* A text sink that writes the file anew (writeFileSync for appendFileSync).
TextSink_Overwrite(lg, line, fs, dir, fault) ==
  IF "txt" \in lg.logModes /\ lg.textLogFilePath # ""
  THEN [err |-> "",
        files |-> [fs EXCEPT ![lg.textLogFilePath] = File(<<TextTok(line)>>)]]
  ELSE [err |-> "", files |-> fs]

\* The text sink: fs.appendFileSync.
TextSink(lg, line, fs, dir, fault) ==
  IF "txt" \in lg.logModes /\ lg.textLogFilePath # ""
  THEN IF ~dir THEN [err |-> "ENOENT", files |-> fs]
       ELSE IF fault = "txt" THEN [err |-> "EACCES", files |-> fs]
       ELSE [err |-> "",
             files |-> [fs EXCEPT ![lg.textLogFilePath] =
                          File(Append(fs[lg.textLogFilePath].content, TextTok(line)))]]
  ELSE [err |-> "", files |-> fs]

\* The console sink.
ConsoleSink(lg, level, entry, out) ==
  IF "console" \in lg.logModes THEN Append(out, ConsoleLine(level, entry)) ELSE out

---------------------------------------------------------------------------
(* The state machine. *)

Init ==
  /\ instances = [k \in Keys |-> 0]
  /\ loggers = <<>>
  /\ dirExists = FALSE
  /\ files = [p \in Paths |-> Absent]
  /\ console = <<>>
  /\ call = NoCall
  /\ ret = Undefined
  /\ lastGot = [p \in Pairs |-> Undefined]
  /\ lastGotKey = [p \in Pairs |-> Undefined]
  /\ jsonHist = [s \in Services |-> [clean |-> TRUE, calls |-> <<>>]]
  /\ nLogs = 0

\* getLogger(service, moduleName, mode); mkdirOk: whether mkdirSync succeeds.
GetLogger(service, moduleName, mode, mkdirOk) ==
  LET id == Key(service, moduleName)
      cur == Lookup(instances, id)
      hit == Truthy(cur)
      mkdirThrows == ~hit /\ NeedsDir(mode) /\ Mkdir(dirExists, mkdirOk) # ""
      newRef == Len(loggers) + 1
      result == IF hit THEN cur ELSE LoggerRef(newRef)
  IN /\ call' = [NoCall EXCEPT !.op = "getLogger", !.service = service,
                               !.moduleName = moduleName, !.mode = mode,
                               !.fault = IF mkdirOk THEN "none" ELSE "mkdir"]
     /\ IF mkdirThrows
        THEN /\ ret' = Thrown(Mkdir(dirExists, mkdirOk))
             /\ UNCHANGED <<instances, loggers, dirExists, lastGot, lastGotKey>>
        ELSE /\ loggers' = IF hit THEN loggers
                           ELSE Append(loggers, NewLogger(service, moduleName, mode))
             /\ dirExists' = IF hit THEN dirExists ELSE (dirExists \/ NeedsDir(mode))
             /\ instances' = IF hit THEN instances
                             ELSE [instances EXCEPT ![id] = newRef]
             /\ ret' = result
             /\ lastGot' = [lastGot EXCEPT ![<<service, moduleName>>] = result]
             /\ lastGotKey' = [lastGotKey EXCEPT ![<<service, moduleName>>] = result]
     /\ UNCHANGED <<files, console, jsonHist, nLogs>>

\* A removeLogger that empties the registry.
RemoveLogger_ClearAll(service, moduleName) ==
  /\ instances' = [k \in Keys |-> 0]
  /\ call' = [NoCall EXCEPT !.op = "removeLogger", !.service = service,
                            !.moduleName = moduleName]
  /\ ret' = Undefined
  /\ lastGot' = [lastGot EXCEPT ![<<service, moduleName>>] = Undefined]
  /\ lastGotKey' = [p \in Pairs |->
                      IF Key(p[1], p[2]) = Key(service, moduleName)
                      THEN Undefined ELSE lastGotKey[p]]
  /\ UNCHANGED <<loggers, dirExists, files, console, jsonHist, nLogs>>

\* A removeLogger that also switches the sinks of the removed Logger off.
RemoveLogger_Disable(service, moduleName) ==
  LET id == Key(service, moduleName)
  IN /\ instances' = [instances EXCEPT ![id] = 0]
     /\ loggers' = [r \in DOMAIN loggers |->
                      IF instances[id] = r THEN [loggers[r] EXCEPT !.logModes = {}]
                      ELSE loggers[r]]
     /\ call' = [NoCall EXCEPT !.op = "removeLogger", !.service = service,
                               !.moduleName = moduleName]
     /\ ret' = Undefined
     /\ lastGot' = [lastGot EXCEPT ![<<service, moduleName>>] = Undefined]
     /\ lastGotKey' = [p \in Pairs |->
                         IF Key(p[1], p[2]) = id THEN Undefined ELSE lastGotKey[p]]
     /\ UNCHANGED <<dirExists, files, console, jsonHist, nLogs>>

\* removeLogger(service, moduleName)
RemoveLogger(service, moduleName) ==
  LET id == Key(service, moduleName)
  IN /\ instances' = [instances EXCEPT ![id] = 0]
     /\ call' = [NoCall EXCEPT !.op = "removeLogger", !.service = service,
                               !.moduleName = moduleName]
     /\ ret' = Undefined
     /\ lastGot' = [lastGot EXCEPT ![<<service, moduleName>>] = Undefined]
     /\ lastGotKey' = [p \in Pairs |->
                         IF Key(p[1], p[2]) = id THEN Undefined ELSE lastGotKey[p]]
     /\ UNCHANGED <<loggers, dirExists, files, console, jsonHist, nLogs>>

\* A writeLog that goes on to the text sink after the JSON sink has failed.
WriteLog_TxtAfterJsonError(ref, caller, level, rawMessages, ts, fault) ==
  LET lg == loggers[ref]
      finalMessage == FinalMessage(rawMessages)
      entry == Entry(lg, caller, level, finalMessage, ts)
      json == JsonSink(lg, entry, files, dirExists, fault)
      line == TextLine(lg, caller, level, finalMessage, entry)
      txt == TextSink(lg, line, json.files, dirExists, fault)
      err == IF json.err # "" THEN json.err ELSE txt.err
  IN /\ nLogs' = nLogs + 1
     /\ call' = [NoCall EXCEPT !.op = "log", !.ref = ref, !.level = level,
                               !.args = rawMessages, !.caller = caller, !.ts = ts,
                               !.fault = fault]
     /\ console' = ConsoleSink(lg, level, entry, console)
     /\ files' = txt.files
     /\ ret' = IF err = "" THEN Undefined ELSE Thrown(err)
     /\ jsonHist' = jsonHist
     /\ UNCHANGED <<instances, loggers, dirExists, lastGot, lastGotKey>>

\* logger.debug / info / warn / error / fatal (...args) on the Logger at ref;
\* caller is what getCaller returns, ts the clock, fault the file operation
\* that fails ("none" when the file system works).
WriteLog(ref, caller, level, rawMessages, ts, fault) ==
  LET lg == loggers[ref]
      finalMessage == FinalMessage(rawMessages)
      entry == Entry(lg, caller, level, finalMessage, ts)
      json == JsonSink(lg, entry, files, dirExists, fault)
      line == TextLine(lg, caller, level, finalMessage, entry)
      txt == IF json.err = "" THEN TextSink(lg, line, json.files, dirExists, fault)
             ELSE json
  IN /\ nLogs' = nLogs + 1
     /\ call' = [NoCall EXCEPT !.op = "log", !.ref = ref, !.level = level,
                               !.args = rawMessages, !.caller = caller, !.ts = ts,
                               !.fault = fault]
     /\ console' = ConsoleSink(lg, level, entry, console)
     /\ files' = txt.files
     /\ ret' = IF txt.err = "" THEN Undefined ELSE Thrown(txt.err)
     /\ jsonHist' = IF "json" \in lg.logModes /\ json.err = ""
                    THEN [jsonHist EXCEPT ![lg.service].calls =
                            IF fault = "read" THEN <<call'>> ELSE Append(@, call')]
                    ELSE jsonHist
     /\ UNCHANGED <<instances, loggers, dirExists, lastGot, lastGotKey>>

\* What the tests write over a JSON log file.
CorruptContents ==
  { <<TextTok("Invalid JSON Content")>>, <<NullTok>>,
    <<LBracket, NumberTok("1"), RBracket>> }

\* fs.writeFileSync(jsonLogPath, text) by the test
Corrupt(service, content) ==
  /\ dirExists
  /\ files' = [files EXCEPT ![JsonPath(service)] = File(content)]
  /\ jsonHist' = [jsonHist EXCEPT ![service].clean = FALSE]
  /\ call' = [NoCall EXCEPT !.op = "writeFileSync", !.path = JsonPath(service)]
  /\ ret' = Undefined
  /\ UNCHANGED <<instances, loggers, dirExists, console, lastGot, lastGotKey,
                 nLogs>>

\* if (fs.existsSync(path)) { fs.unlinkSync(path); } by the test
Unlink(path) ==
  /\ files[path].exists
  /\ files' = [files EXCEPT ![path] = Absent]
  /\ jsonHist' = [s \in Services |->
                    IF path = JsonPath(s) THEN [clean |-> TRUE, calls |-> <<>>]
                    ELSE jsonHist[s]]
  /\ call' = [NoCall EXCEPT !.op = "unlinkSync", !.path = path]
  /\ ret' = Undefined
  /\ UNCHANGED <<instances, loggers, dirExists, console, lastGot, lastGotKey,
                 nLogs>>

\* if (fs.existsSync(logsDir)) { fs.rmdirSync(logsDir); } by the test, once the
\* files are gone (rmdirSync removes an empty directory only)
Rmdir ==
  /\ dirExists
  /\ \A path \in Paths : ~files[path].exists
  /\ dirExists' = FALSE
  /\ call' = [NoCall EXCEPT !.op = "rmdirSync", !.path = logsDir]
  /\ ret' = Undefined
  /\ UNCHANGED <<instances, loggers, files, console, lastGot, lastGotKey,
                 jsonHist, nLogs>>

---------------------------------------------------------------------------
(* Specifications.  Each bounds the heap and the number of log calls, and   *)
(* draws the calls' arguments from the sets named in it.                   *)

\* A getLogger call that fits the heap: a cache hit, or room for one more Logger.
Fits(p) == Truthy(Lookup(instances, Key(p[1], p[2]))) \/ Len(loggers) < MaxLoggers

\* Spec: the registry with colliding keys and an inherited key, Loggers with
\* and without files, and the log files they write.
SpecModes == {{"console"}, {"json", "txt"}}

SpecInputs ==
  { <<"at run (app.ts:3:3)", "warn",
      <<StrArg("First"), ObjArg(<<BoolProp("second", "true")>>), StrArg("Third")>>, 1>> }

Next ==
  \/ \E p \in Pairs, mode \in SpecModes :
       Fits(p) /\ GetLogger(p[1], p[2], mode, TRUE)
  \/ \E p \in Pairs : RemoveLogger(p[1], p[2])
  \/ \E ref \in DOMAIN loggers, i \in SpecInputs :
       nLogs < MaxLogs /\ WriteLog(ref, i[1], i[2], i[3], i[4], "none")

Spec == Init /\ [][Next]_vars

\* SpecJson: the Loggers of one service and two modules, with and without
\* the JSON sink, around one JSON file, which the tests overwrite and delete.
JsonPairs == {<<"ab", "c">>, <<"ab", "bc">>}

JsonModes == {{"json"}, {"console"}}

JsonInputs ==
  { <<"", "info", <<StrArg("X")>>, 0>>,
    <<"at run (app.ts:3:3)", "error", <<ObjArg(<<StrProp("foo", "bar")>>)>>, 1>> }

NextJson ==
  \/ \E p \in JsonPairs, mode \in JsonModes :
       Fits(p) /\ GetLogger(p[1], p[2], mode, TRUE)
  \/ \E ref \in DOMAIN loggers, i \in JsonInputs :
       nLogs < MaxJsonLogs /\ WriteLog(ref, i[1], i[2], i[3], i[4], "none")
  \/ \E content \in CorruptContents : Corrupt("ab", content)
  \/ Unlink(JsonPath("ab"))

SpecJson == Init /\ [][NextJson]_vars

\* SpecFormat: one Logger with all three sinks, every level method with every
\* shape of arguments, caller and clock reading.
FormatModes == {{"console", "json", "txt"}}

NextFormat ==
  \/ \E mode \in FormatModes :
       Fits(<<"ab", "c">>) /\ GetLogger("ab", "c", mode, TRUE)
  \/ \E ref \in DOMAIN loggers, caller \in Callers, level \in LogLevel,
        rawMessages \in ArgLists, ts \in Clock :
       nLogs < MaxFormatLogs /\ WriteLog(ref, caller, level, rawMessages, ts, "none")

SpecFormat == Init /\ [][NextFormat]_vars

\* SpecFaults: two services, a file system that can refuse mkdirSync,
\* readFileSync, writeFileSync or appendFileSync, and the test's rmdirSync.
FaultPairs == {<<"ab", "bc">>, <<"a", "bc">>}

FaultModes == {{"console", "json", "txt"}, {"console"}}

\* The file operation of a log call that the file system refuses.
Faults == {"none", "read", "json", "txt"}

FaultInputs == { <<"at run (app.ts:3:3)", "error", <<StrArg("X")>>, 1>> }

NextFaults ==
  \/ \E p \in FaultPairs, mode \in FaultModes, mkdirOk \in BOOLEAN :
       Fits(p) /\ GetLogger(p[1], p[2], mode, mkdirOk)
  \/ \E ref \in DOMAIN loggers, i \in FaultInputs, fault \in Faults :
       nLogs < MaxFaultLogs /\ WriteLog(ref, i[1], i[2], i[3], i[4], fault)
  \/ Rmdir

SpecFaults == Init /\ [][NextFaults]_vars

\* SpecLife: Loggers of one service and of another, with one file sink each,
\* removed from the registry, obtained again and used after their removal.
LifePairs == {<<"ab", "c">>, <<"ab", "bc">>, <<"a", "bc">>}

LifeModes == {{"json"}, {"txt"}}

LifeInputs == { <<"", "debug", <<StrArg("X")>>, 0>> }

NextLife ==
  \/ \E p \in LifePairs, mode \in LifeModes :
       Fits(p) /\ GetLogger(p[1], p[2], mode, TRUE)
  \/ \E p \in LifePairs : RemoveLogger(p[1], p[2])
  \/ \E ref \in DOMAIN loggers, i \in LifeInputs :
       nLogs < MaxLifeLogs /\ WriteLog(ref, i[1], i[2], i[3], i[4], "none")

SpecLife == Init /\ [][NextLife]_vars

---------------------------------------------------------------------------
(* Claims about the registry, checked under Spec, and about Loggers without *)
(* file sinks (C3), checked under SpecJson.                                 *)

\* C1 as stated: a getLogger call for a pair returns the value the previous
\* getLogger call for that pair returned, and leaves every Logger's modes as
\* they were, whenever no removeLogger call for that pair came in between.
C1_SamePairSameInstance ==
  [][(/\ call'.op = "getLogger"
      /\ lastGot[<<call'.service, call'.moduleName>>].kind # "undefined")
     => (/\ ret' = lastGot[<<call'.service, call'.moduleName>>]
         /\ loggers' = loggers)]_vars

\* C1 as amended: the same, whenever no removeLogger call for a pair with the
\* same concatenated key came in between.  The modes an instance writes with
\* stay those of the call that created it.
C1_SameKeySameInstance ==
  [][(/\ call'.op = "getLogger"
      /\ lastGotKey[<<call'.service, call'.moduleName>>].kind # "undefined")
     => (/\ ret' = lastGotKey[<<call'.service, call'.moduleName>>]
         /\ loggers' = loggers
         /\ instances' = instances)]_vars

\* A second getLogger call for a pair, with other modes than the instance has,
\* has returned the instance of the first call.
C1_Witness ==
  /\ call.op = "getLogger"
  /\ ret.kind = "logger"
  /\ ret.ref \in DOMAIN loggers
  /\ loggers[ret.ref].service = call.service
  /\ loggers[ret.ref].moduleName = call.moduleName
  /\ loggers[ret.ref].logModes # call.mode
  /\ lastGotKey[<<call.service, call.moduleName>>] = ret

\* C2: the getLogger call that follows removeLogger of the same pair
\* constructs a new Logger with the modes of that call, and a log call writes
\* to exactly the sinks in its Logger's modes.
C2_FreshAfterRemove ==
  [][/\ (/\ call.op = "removeLogger"
         /\ call'.op = "getLogger"
         /\ call'.service = call.service
         /\ call'.moduleName = call.moduleName)
        => (/\ ret'.kind = "logger"
            /\ ret'.ref \notin DOMAIN loggers
            /\ ret'.ref \in DOMAIN loggers'
            /\ loggers'[ret'.ref].logModes = call'.mode)
     /\ call'.op = "log"
        => LET lg == loggers[call'.ref]
           IN /\ (console' # console) <=> ("console" \in lg.logModes)
              /\ (files'[JsonPath(lg.service)] # files[JsonPath(lg.service)])
                   <=> ("json" \in lg.logModes)
              /\ (files'[TextPath(lg.service)] # files[TextPath(lg.service)])
                   <=> ("txt" \in lg.logModes)]_vars

\* C3: constructing a Logger whose modes hold neither json nor txt, and every
\* log call on such a Logger, leaves the logs directory and every file as
\* they were.
C3_NoFileModesLeaveDisk ==
  [][/\ (call'.op = "getLogger" /\ call'.mode \cap {"json", "txt"} = {})
        => (files' = files /\ dirExists' = dirExists)
     /\ (call'.op = "log" /\ loggers[call'.ref].logModes \cap {"json", "txt"} = {})
        => (files' = files /\ dirExists' = dirExists)]_vars

\* A console-only Logger has logged three times and there is still no
\* directory.
C3_Witness ==
  /\ call.op = "log"
  /\ loggers[call.ref].logModes = {"console"}
  /\ nLogs >= 3
  /\ Len(console) = nLogs
  /\ ~dirExists
  /\ \A path \in Paths : ~files[path].exists

\* C9: ("ab","c") and ("a","bc") share one registry entry: getLogger("a","bc")
\* returns the Logger created for ("ab","c") unchanged, and removeLogger("a","bc")
\* removes the entry of ("ab","c").
C9_CollidingPairsShareEntry ==
  [][/\ (/\ call'.op = "getLogger"
         /\ call'.service = "a" /\ call'.moduleName = "bc"
         /\ lastGotKey[<<"ab", "c">>].kind = "logger"
         /\ loggers[lastGotKey[<<"ab", "c">>].ref].service = "ab")
        => (/\ ret' = lastGotKey[<<"ab", "c">>]
            /\ loggers' = loggers
            /\ loggers[ret'.ref].moduleName = "c")
     /\ (/\ call'.op = "removeLogger"
         /\ call'.service = "a" /\ call'.moduleName = "bc")
        => (/\ Lookup(instances', Key("ab", "c")) = Undefined
            /\ lastGotKey'[<<"ab", "c">>] = Undefined)]_vars

\* getLogger("a","bc") has returned the Logger of ("ab","c"), whose modes are
\* not the ones it was called with.
C9_Witness ==
  /\ call.op = "getLogger"
  /\ call.service = "a" /\ call.moduleName = "bc"
  /\ ret.kind = "logger"
  /\ loggers[ret.ref].service = "ab"
  /\ loggers[ret.ref].moduleName = "c"
  /\ loggers[ret.ref].logModes # call.mode

\* C10 as stated: removeLogger raises nothing, leaves the entry of every other
\* (service, module) pair as it was, and leaves the directory and the files
\* as they were.
C10_OtherPairsKept ==
  [][call'.op = "removeLogger"
     => (/\ ret' = Undefined
         /\ \A q \in Pairs \ {<<call'.service, call'.moduleName>>} :
              Lookup(instances', Key(q[1], q[2])) = Lookup(instances, Key(q[1], q[2]))
         /\ files' = files /\ dirExists' = dirExists)]_vars

\* C10 as amended: removeLogger raises nothing, clears the entry under the key
\* service + module and leaves the entry under every other key, every Logger
\* object, the directory and the files as they were; with no entry under the
\* key the registry stays as it was.
C10_OtherKeysKept ==
  [][call'.op = "removeLogger"
     => LET id == Key(call'.service, call'.moduleName)
        IN /\ ret' = Undefined
           /\ instances'[id] = 0
           /\ \A k \in Keys \ {id} : instances'[k] = instances[k]
           /\ (instances[id] = 0 => instances' = instances)
           /\ loggers' = loggers
           /\ files' = files /\ dirExists' = dirExists]_vars

\* removeLogger found no entry under its key, while another key has an entry
\* and a log file exists.
C10_Witness ==
  /\ call.op = "removeLogger"
  /\ call.service = "to" /\ call.moduleName = "String"
  /\ \E k \in Keys \ {Key(call.service, call.moduleName)} : instances[k] # 0
  /\ \E path \in Paths : files[path].exists

\* C15: a getLogger call whose key has no entry in the registry (never
\* stored, or removed), the names of inherited Object properties included,
\* constructs a new Logger with the service, module and modes of the call,
\* stores it under the key and returns it.
C15_AbsentKeyConstructs ==
  [][(/\ call'.op = "getLogger"
      /\ instances[Key(call'.service, call'.moduleName)] = 0)
     => (/\ ret' = LoggerRef(Len(loggers) + 1)
         /\ Len(loggers') = Len(loggers) + 1
         /\ loggers'[ret'.ref].service = call'.service
         /\ loggers'[ret'.ref].moduleName = call'.moduleName
         /\ loggers'[ret'.ref].logModes = call'.mode
         /\ instances'[Key(call'.service, call'.moduleName)] = ret'.ref)]_vars

---------------------------------------------------------------------------
(* Claims about the JSON file, checked under SpecJson. *)

\* The entry a recorded log call builds.
EntryOf(c) ==
  Entry(loggers[c.ref], c.caller, c.level, FinalMessage(c.args), c.ts)

\* C4: a log call on a json Logger that finds the JSON file absent or holding
\* an array leaves it holding that array with one entry added at the end,
\* carrying the call's level and message; counted from an absent file, the
\* file holds one entry per call, the i-th with the level and message of the
\* i-th call.
C4_JsonAppendsInOrder ==
  [][(/\ call'.op = "log"
      /\ "json" \in loggers[call'.ref].logModes
      /\ \/ ~files[JsonPath(loggers[call'.ref].service)].exists
         \/ JSONParse(files[JsonPath(loggers[call'.ref].service)].content).k = "array")
     => LET svc == loggers[call'.ref].service
            old == IF files[JsonPath(svc)].exists
                   THEN JSONParse(files[JsonPath(svc)].content).items ELSE <<>>
            new == JSONParse(files'[JsonPath(svc)].content)
            hist == jsonHist'[svc]
        IN /\ files'[JsonPath(svc)].exists
           /\ new.ok /\ new.k = "array"
           /\ Len(new.items) = Len(old) + 1
           /\ SubSeq(new.items, 1, Len(old)) = old
           /\ new.items[Len(old) + 1].t = "object"
           /\ new.items[Len(old) + 1].e.level = call'.level
           /\ new.items[Len(old) + 1].e.message = FinalMessage(call'.args)
           /\ hist.clean
              => /\ Len(new.items) = Len(hist.calls)
                 /\ \A i \in 1..Len(hist.calls) :
                      /\ new.items[i].e.level = hist.calls[i].level
                      /\ new.items[i].e.message = FinalMessage(hist.calls[i].args)]_vars

\* One Logger has logged three times, at more than one level, to a JSON file
\* that was absent before, and the file holds three entries.
C4_Witness ==
  LET hist == jsonHist["ab"]
  IN /\ call.op = "log"
     /\ hist.clean
     /\ Len(hist.calls) = 3
     /\ \A i \in 1..3 : hist.calls[i].ref = call.ref
     /\ hist.calls[1].level # hist.calls[2].level
     /\ files[JsonPath("ab")].exists
     /\ Len(JSONParse(files[JsonPath("ab")].content).items) = 3

\* C5: a log call on a json Logger that finds the JSON file holding text that
\* does not parse raises nothing and leaves the file holding the array of the
\* new entry alone.
C5_CorruptJsonIsReset ==
  [][(/\ call'.op = "log"
      /\ "json" \in loggers[call'.ref].logModes
      /\ files[JsonPath(loggers[call'.ref].service)].exists
      /\ ~JSONParse(files[JsonPath(loggers[call'.ref].service)].content).ok)
     => LET path == JsonPath(loggers[call'.ref].service)
        IN /\ ret' = Undefined
           /\ files'[path].exists
           /\ JSONParse(files'[path].content) =
                [ok |-> TRUE, k |-> "array", items |-> <<ObjectTok(EntryOf(call'))>>]]_vars

\* The JSON file was overwritten by the test and a log call has since left a
\* one-entry array in it.
C5_Witness ==
  /\ call.op = "log"
  /\ ret = Undefined
  /\ "json" \in loggers[call.ref].logModes
  /\ ~jsonHist["ab"].clean
  /\ files[JsonPath("ab")].content = JSONStringify(<<ObjectTok(EntryOf(call))>>)

\* C8: whichever Loggers of a service logged, and in whatever order, a JSON
\* file that only they wrote since it was last absent holds the entries of
\* all their calls, one per call, in the order of the calls.
C8_NoLostUpdate ==
  \A svc \in Services :
    jsonHist[svc].clean
    => /\ files[JsonPath(svc)].exists <=> (jsonHist[svc].calls # <<>>)
       /\ files[JsonPath(svc)].exists
          => JSONParse(files[JsonPath(svc)].content) =
               [ok |-> TRUE, k |-> "array",
                items |-> [i \in 1..Len(jsonHist[svc].calls) |->
                             ObjectTok(EntryOf(jsonHist[svc].calls[i]))]]

\* Two Loggers of service "ab" with different modules have logged in turn
\* (first, second, first) and the file holds the three entries.
C8_Witness ==
  LET hist == jsonHist["ab"]
  IN /\ hist.clean
     /\ Len(hist.calls) = 3
     /\ hist.calls[1].ref # hist.calls[2].ref
     /\ hist.calls[3].ref = hist.calls[1].ref
     /\ loggers[hist.calls[1].ref].moduleName # loggers[hist.calls[2].ref].moduleName
     /\ Len(JSONParse(files[JsonPath("ab")].content).items) = 3

\* C12: whatever the JSON file holds, a log call on a json Logger raises
\* nothing and leaves the file holding an array that contains the new entry.
C12_AnyContentIsSurvived ==
  [][(/\ call'.op = "log"
      /\ "json" \in loggers[call'.ref].logModes
      /\ files[JsonPath(loggers[call'.ref].service)].exists)
     => LET new == JSONParse(files'[JsonPath(loggers[call'.ref].service)].content)
        IN /\ ret' = Undefined
           /\ new.ok /\ new.k = "array"
           /\ \E i \in 1..Len(new.items) : new.items[i] = ObjectTok(EntryOf(call'))]_vars

---------------------------------------------------------------------------
(* Claims about formatting, checked under SpecFormat. *)

\* The upper-cased level names of the claim.
C6_Upper ==
  [debug |-> "DEBUG", info |-> "INFO", warn |-> "WARN", error |-> "ERROR",
   fatal |-> "FATAL"]

\* C6: a log call on a txt Logger appends to the text file, after all it held,
\* the one record "<timestamp> <service> <module> <caller> [<LEVEL>]: <message>"
\* and a newline; after warn("X") the record ends in "[WARN]: X".
C6_TextLineAppended ==
  [][(call'.op = "log" /\ "txt" \in loggers[call'.ref].logModes)
     => LET lg == loggers[call'.ref]
            old == files[TextPath(lg.service)].content
            new == files'[TextPath(lg.service)]
        IN /\ new.exists
           /\ Len(new.content) = Len(old) + 1
           /\ SubSeq(new.content, 1, Len(old)) = old
           /\ new.content[Len(old) + 1] =
                TextTok(ToISOString(call'.ts) \o " " \o lg.service \o " "
                          \o lg.moduleName \o " " \o call'.caller \o " ["
                          \o C6_Upper[call'.level] \o "]: "
                          \o FinalMessage(call'.args) \o "\n")
           /\ (call'.level = "warn" /\ call'.args = <<StrArg("X")>>)
              => \E c \in Callers, t \in Clock :
                   new.content[Len(old) + 1].s =
                     ToISOString(t) \o " ab c " \o c \o " [WARN]: X\n"]_vars

\* warn("X") has appended a second record to the text file.
C6_Witness ==
  /\ call.op = "log"
  /\ call.level = "warn"
  /\ call.args = <<StrArg("X")>>
  /\ "txt" \in loggers[call.ref].logModes
  /\ Len(files[TextPath("ab")].content) = 2

\* What the claim says one argument contributes to the message.
C7_Render(arg) ==
  IF arg = ObjArg(<<BoolProp("second", "true")>>) THEN "{\"second\":true}"
  ELSE IF arg = ObjArg(<<StrProp("foo", "bar")>>) THEN "{\"foo\":\"bar\"}"
  ELSE arg.s

\* The arguments in order, each after the first preceded by ", ".
RECURSIVE C7_Flatten(_)
C7_Flatten(args) ==
  IF Len(args) = 1 THEN C7_Render(args[1])
  ELSE C7_Flatten(SubSeq(args, 1, Len(args) - 1)) \o ", " \o C7_Render(args[Len(args)])

\* C7: the message every sink of a log call receives is the arguments joined
\* by ", ", objects as compact JSON and strings as they are.
C7_MessageIsJoinedArgs ==
  call.op = "log"
  => LET lg == loggers[call.ref]
         json == JSONParse(files[JsonPath(lg.service)].content).items
         text == files[TextPath(lg.service)].content
     IN /\ C7_Flatten(<<StrArg("First"), ObjArg(<<BoolProp("second", "true")>>),
                        StrArg("Third")>>) = "First, {\"second\":true}, Third"
        /\ "console" \in lg.logModes
           => console[Len(console)].entry.message = C7_Flatten(call.args)
        /\ "json" \in lg.logModes
           => json[Len(json)].e.message = C7_Flatten(call.args)
        /\ "txt" \in lg.logModes
           => text[Len(text)].s =
                ToISOString(call.ts) \o " " \o lg.service \o " " \o lg.moduleName
                  \o " " \o call.caller \o " [" \o C6_Upper[call.level] \o "]: "
                  \o C7_Flatten(call.args) \o "\n"

\* ("First", {second: true}, "Third") has been logged to all three sinks.
C7_Witness ==
  /\ call.op = "log"
  /\ call.args = <<StrArg("First"), ObjArg(<<BoolProp("second", "true")>>),
                   StrArg("Third")>>
  /\ loggers[call.ref].logModes = {"console", "json", "txt"}
  /\ console[Len(console)].entry.message = "First, {\"second\":true}, Third"

---------------------------------------------------------------------------
(* Claims about a failing file system, checked under SpecFaults. *)

\* C11: a getLogger call with json or txt in its modes, made while the logs
\* directory exists (whether or not mkdirSync would be refused) or while
\* mkdirSync works, raises nothing; the directory that existed still exists,
\* and it exists after every call that constructed a Logger.
C11_DirectoryCreationIdempotent ==
  [][(/\ call'.op = "getLogger"
      /\ call'.mode \cap {"json", "txt"} # {}
      /\ (dirExists \/ call'.fault = "none"))
     => (/\ ret'.kind # "error"
         /\ dirExists => dirExists'
         /\ Len(loggers') > Len(loggers) => dirExists')]_vars

\* The Logger of a second service with file sinks has been obtained while the
\* directory made for the first was there and mkdirSync would have been
\* refused.
C11_Witness ==
  /\ call.op = "getLogger"
  /\ call.fault = "mkdir"
  /\ ret.kind = "logger"
  /\ ret.ref = 2
  /\ Len(loggers) = 2
  /\ loggers[1].service # loggers[2].service
  /\ "json" \in loggers[1].logModes
  /\ "json" \in loggers[2].logModes
  /\ dirExists

\* C13: in a log call the console line is emitted first, whatever happens
\* later.  When the JSON write is refused or finds no directory, the call
\* raises and no file is changed: nothing reaches the text file and nothing
\* is tried again.  When the append to the text file is refused, the call
\* raises, the text file is as it was and the JSON file ends with the new
\* entry.  With no refusal and a directory the call raises nothing.
C13_SinksInOrderErrorsPropagate ==
  [][call'.op = "log"
     => LET lg == loggers[call'.ref]
            modes == lg.logModes
            jp == JsonPath(lg.service)
            tp == TextPath(lg.service)
            entry == EntryOf(call')
            new == JSONParse(files'[jp].content).items
        IN /\ console' = IF "console" \in modes
                         THEN Append(console, ConsoleLine(call'.level, entry))
                         ELSE console
           /\ ("json" \in modes /\ (call'.fault = "json" \/ ~dirExists))
              => (ret'.kind = "error" /\ files' = files)
           /\ ({"json", "txt"} \subseteq modes /\ call'.fault = "txt" /\ dirExists)
              => (/\ ret'.kind = "error"
                  /\ files'[tp] = files[tp]
                  /\ files'[jp].exists
                  /\ Len(new) >= 1
                  /\ new[Len(new)] = ObjectTok(entry))
           /\ (call'.fault \in {"none", "read"} /\ dirExists)
              => (/\ ret' = Undefined
                  /\ "json" \in modes => new[Len(new)] = ObjectTok(entry)
                  /\ "txt" \in modes
                     => Len(files'[tp].content) = Len(files[tp].content) + 1)
           /\ nLogs' = nLogs + 1]_vars

\* A first log call was refused its JSON write and a second its append: the
\* console has both lines, the JSON file the entry of the second call alone,
\* and there is no text file.
C13_Witness ==
  /\ call.op = "log"
  /\ call.fault = "txt"
  /\ ret = Thrown("EACCES")
  /\ nLogs = 2
  /\ \A r \in DOMAIN loggers : loggers[r].logModes = {"console", "json", "txt"}
  /\ Len(console) = 2
  /\ files[JsonPath(loggers[call.ref].service)].content
       = JSONStringify(<<ObjectTok(EntryOf(call))>>)
  /\ \A s \in Services : ~files[TextPath(s)].exists
  /\ \A s \in Services \ {loggers[call.ref].service} : ~files[JsonPath(s)].exists

\* C16: a getLogger call that has to construct a json or txt Logger while the
\* directory is missing and mkdirSync is refused raises that error and leaves
\* the registry, the Loggers and the file system as they were; the getLogger
\* call for the same pair that follows, with mkdirSync working, constructs a
\* new Logger with its own modes, stores it and returns it.
C16_FailedConstructionStoresNothing ==
  [][call'.op = "getLogger"
     => LET id == Key(call'.service, call'.moduleName)
        IN /\ (/\ Lookup(instances, id) = Undefined
               /\ call'.mode \cap {"json", "txt"} # {}
               /\ ~dirExists
               /\ call'.fault = "mkdir")
              => ret' = Thrown("EACCES")
           /\ ret'.kind = "error"
              => (/\ instances' = instances
                  /\ loggers' = loggers
                  /\ dirExists' = dirExists
                  /\ files' = files)
           /\ (/\ call.op = "getLogger"
               /\ ret.kind = "error"
               /\ call'.service = call.service
               /\ call'.moduleName = call.moduleName
               /\ call'.fault = "none")
              => (/\ ret' = LoggerRef(Len(loggers) + 1)
                  /\ Len(loggers') = Len(loggers) + 1
                  /\ loggers'[ret'.ref].service = call'.service
                  /\ loggers'[ret'.ref].moduleName = call'.moduleName
                  /\ loggers'[ret'.ref].logModes = call'.mode
                  /\ instances'[id] = ret'.ref)]_vars

\* getLogger has raised the refusal of mkdirSync: its key has no entry, the
\* entry of the other pair is still there and there is no directory.
C16_Witness ==
  /\ call.op = "getLogger"
  /\ call.fault = "mkdir"
  /\ ret = Thrown("EACCES")
  /\ instances[Key(call.service, call.moduleName)] = 0
  /\ \E k \in Keys : instances[k] # 0
  /\ ~dirExists

---------------------------------------------------------------------------
(* Claims about the life of a Logger, checked under SpecLife. *)

\* C14: every Logger has its JSON path set iff json is in its modes and its
\* text path set iff txt is, the modes being those of the call that
\* constructed it; the paths are "logs/<service>.log.json" and
\* "logs/<service>.log.txt", the same for Loggers of one service whatever
\* their modules; no call changes a Logger that exists, and a log call
\* changes no file but those at the paths of its Logger.
C14_PathsFixedAtConstruction ==
  [][/\ \A r \in DOMAIN loggers' :
          LET lg == loggers'[r]
          IN /\ lg.logFilePath # "" <=> "json" \in lg.logModes
             /\ lg.textLogFilePath # "" <=> "txt" \in lg.logModes
             /\ lg.logFilePath \in {"", "logs/" \o lg.service \o ".log.json"}
             /\ lg.textLogFilePath \in {"", "logs/" \o lg.service \o ".log.txt"}
     /\ \A r1, r2 \in DOMAIN loggers' :
          loggers'[r1].service = loggers'[r2].service
          => (/\ "" \in {loggers'[r1].logFilePath, loggers'[r2].logFilePath}
                 \/ loggers'[r1].logFilePath = loggers'[r2].logFilePath
              /\ "" \in {loggers'[r1].textLogFilePath, loggers'[r2].textLogFilePath}
                 \/ loggers'[r1].textLogFilePath = loggers'[r2].textLogFilePath)
     /\ \A r \in DOMAIN loggers : r \in DOMAIN loggers' /\ loggers'[r] = loggers[r]
     /\ Len(loggers') > Len(loggers)
        => (/\ call'.op = "getLogger"
            /\ loggers'[Len(loggers')].logModes = call'.mode)
     /\ call'.op = "log"
        => \A path \in Paths :
             files'[path] # files[path]
             => path \in {loggers[call'.ref].logFilePath,
                          loggers[call'.ref].textLogFilePath}]_vars

\* Two Loggers of one service with different modules, the first with the
\* JSON sink alone, have both written to the one JSON file of the service.
C14_Witness ==
  /\ Len(loggers) = 2
  /\ loggers[1].service = loggers[2].service
  /\ loggers[1].moduleName # loggers[2].moduleName
  /\ loggers[1].logModes = {"json"}
  /\ loggers[1].textLogFilePath = ""
  /\ loggers[1].logFilePath = loggers[2].logFilePath
  /\ Len(jsonHist[loggers[1].service].calls) = 2
  /\ jsonHist[loggers[1].service].calls[1].ref # jsonHist[loggers[1].service].calls[2].ref
  /\ Len(JSONParse(files[loggers[1].logFilePath].content).items) = 2

\* C17: removeLogger changes no Logger and no file, and a log call on any
\* Logger, in the registry or removed from it, raises nothing and adds its
\* entry at the end of the JSON file iff json is in the Logger's modes and its
\* line at the end of the text file iff txt is.  Every entry of the registry
\* is a Logger whose service + module is the key, and no Logger is stored
\* under two keys.
C17_RemovedLoggerKeepsWriting ==
  [][/\ call'.op = "removeLogger" => (loggers' = loggers /\ files' = files)
     /\ call'.op = "log"
        => LET lg == loggers[call'.ref]
               jp == JsonPath(lg.service)
               tp == TextPath(lg.service)
               old == IF files[jp].exists THEN JSONParse(files[jp].content).items
                      ELSE <<>>
           IN /\ ret' = Undefined
              /\ loggers' = loggers
              /\ files'[jp] = IF "json" \in lg.logModes
                              THEN File(JSONStringify(Append(old, ObjectTok(EntryOf(call')))))
                              ELSE files[jp]
              /\ files'[tp] = IF "txt" \in lg.logModes
                              THEN File(Append(files[tp].content,
                                               TextTok(TextLine(lg, call'.caller, call'.level,
                                                                FinalMessage(call'.args),
                                                                EntryOf(call')))))
                              ELSE files[tp]
     /\ \A k \in Keys :
          instances'[k] # 0
          => (/\ instances'[k] \in DOMAIN loggers'
              /\ Key(loggers'[instances'[k]].service,
                     loggers'[instances'[k]].moduleName) = k
              /\ \A k2 \in Keys \ {k} : instances'[k2] # instances'[k])]_vars

\* Two Loggers of the same service and module are alive, the registry holds
\* the second, and the JSON file holds the entry of the second followed by
\* the entry the first wrote after its removal.
C17_Witness ==
  /\ call.op = "log"
  /\ call.ref = 1
  /\ Len(loggers) = 2
  /\ loggers[1].service = loggers[2].service
  /\ loggers[1].moduleName = loggers[2].moduleName
  /\ instances[Key(loggers[1].service, loggers[1].moduleName)] = 2
  /\ Len(jsonHist[loggers[1].service].calls) = 2
  /\ jsonHist[loggers[1].service].calls[1].ref = 2
  /\ jsonHist[loggers[1].service].calls[2].ref = 1
  /\ Len(JSONParse(files[JsonPath(loggers[1].service)].content).items) = 2

====
